---------------------------- MODULE Spec2Model ----------------------------
(***************************************************************************)
(* A model of the YetiFace web page scripts: the Steam deep-link handoff   *)
(* (js/modules/steamUtils.js), the bootstrap sequence (js/index.js), the   *)
(* content loader (js/modules/dataLoader.js), the theme manager            *)
(* (modules/themeManager.js), the modal renderer (modules/modalRenderer.js)*)
(* and the header and section renderers.                                   *)
(*                                                                         *)
(* JavaScript strings are modelled as sequences of one-character strings,  *)
(* so that the regular expressions, encodeURI, String.includes and the     *)
(* template literals of the source are computed character by character.    *)
(***************************************************************************)
EXTENDS Integers, Sequences, FiniteSets

VARIABLES
    calls,         \* one record per call of tryOpenSteamFromWebUrl, in call order
    winFocused,    \* the window has input focus
    docHidden,     \* document.hidden
    visChanges,    \* number of visibilitychange events dispatched so far
    storageMode,   \* how localStorage behaves in this browser session
    stored,        \* localStorage value under the key 'theme'
    themeHref,     \* href attribute of the #theme-style link element
    dataTheme,     \* data-theme attribute of document.body
    toggle,        \* the theme toggle button and its closure
    preloads,      \* themes with a link#preload-<theme> in document.head
    isInitialized, \* index.js: let isInitialized
    initCalls,     \* history: calls of initializeApp so far
    pc,            \* where initializeApp stands
    doc,           \* the content document loadData resolved with
    caught,        \* the error caught by initializeApp's catch block
    ran,           \* renderers that were called, in order
    done,          \* renderers that returned normally
    mainContent,   \* what #main-content shows
    spinner,       \* style.display of #app-spinner
    appContent,    \* style.display of #app-content
    images,        \* load state of the critical images
    waiting,       \* images waitForAboveFoldImages still awaits
    errorEvents,   \* number of window error events handled
    rejections,    \* number of unhandledrejection events handled
    modal,         \* the modal subsystem: overlays, focus, fragment, key listeners
    social,        \* the social links createSocialLinksContainer put in the header
    plainNav,      \* urls the browser opened by the default action of a link
    rendered       \* the items renderSections put in #main-content

steamVars == <<calls, winFocused, docHidden, visChanges>>
themeVars == <<storageMode, stored, themeHref, dataTheme, toggle, preloads>>
bootVars == <<isInitialized, initCalls, pc, doc, caught, ran, done, mainContent, spinner,
              appContent, images, waiting, errorEvents, rejections>>
linkVars == <<social, plainNav>>
pageVars == <<modal, linkVars, rendered>>
vars == <<steamVars, themeVars, bootVars, pageVars>>

-----------------------------------------------------------------------------
(* Bounds of the model                                                     *)

\* calls of tryOpenSteamFromWebUrl whose handoffs may overlap
MaxInvocations == 2
\* visibilitychange events dispatched in one behaviour
MaxVisChanges == 2
\* activations of the theme toggle in one behaviour
MaxToggles == 3
\* window 'error' and 'unhandledrejection' events in one behaviour
MaxErrorEvents == 2
\* calls of initializeApp (DOMContentLoaded, window.refreshApp) in one behaviour
MaxInitCalls == 2
\* direct calls of openModal in one behaviour
MaxModalCalls == 2
\* openModal runs that reach the escHandler closure in one behaviour
MaxOpens == 3
\* activations of header social links in one behaviour
MaxSocialClicks == 2
\* calls of renderSections in one behaviour
MaxRenderPasses == 2

-----------------------------------------------------------------------------
(* Strings                                                                 *)

SchemeHttps == <<"h", "t", "t", "p", "s", ":", "/", "/">>  \* "https://"
SchemeHttp == <<"h", "t", "t", "p", ":", "/", "/">>  \* "http://"
SchemeUpper == <<"H", "T", "T", "P", "S", ":", "/", "/">>  \* "HTTPS://"
SchemeFtp == <<"f", "t", "p", ":", "/", "/">>  \* "ftp://"
HostStore == <<"s", "t", "o", "r", "e", ".", "s", "t", "e", "a", "m", "p", "o", "w", "e", "r", "e", "d", ".", "c", "o", "m">>  \* "store.steampowered.com"
HostCommunity == <<"s", "t", "e", "a", "m", "c", "o", "m", "m", "u", "n", "i", "t", "y", ".", "c", "o", "m">>  \* "steamcommunity.com"
HostStoreCaps == <<"S", "t", "o", "r", "e", ".", "S", "t", "e", "a", "m", "P", "o", "w", "e", "r", "e", "d", ".", "c", "o", "m">>  \* "Store.SteamPowered.com"
HostOther == <<"e", "x", "a", "m", "p", "l", "e", ".", "c", "o", "m">>  \* "example.com"
HostLookalike == <<"s", "t", "e", "a", "m", "c", "o", "m", "m", "u", "n", "i", "t", "y", ".", "c", "o", "m", ".", "e", "v", "i", "l", ".", "i", "o">>  \* "steamcommunity.com.evil.io"
PathNone == <<>>  \* ""
PathRoot == <<"/">>  \* "/"
PathApp == <<"/", "a", "p", "p", "/", "4", "2", "/", "G", "a", "m", "e", "/">>  \* "/app/42/Game/"
PathAppBare == <<"/", "a", "p", "p", "/", "7">>  \* "/app/7"
PathAppNoDigits == <<"/", "a", "p", "p", "/", "x", "9">>  \* "/app/x9"
PathSearch == <<"/", "s", "e", "a", "r", "c", "h", "/", "?", "q", "=", "a", " ", "b">>  \* "/search/?q=a b"
PathSearchEncoded == <<"/", "s", "e", "a", "r", "c", "h", "/", "?", "q", "=", "a", "%", "2", "0", "b">>  \* "/search/?q=a%20b"
PathGroup == <<"/", "g", "r", "o", "u", "p", "s", "/", "Y", "e", "t", "i">>  \* "/groups/Yeti"
AppSlash == <<"/", "a", "p", "p", "/">>  \* "/app/"
SteamStorePrefix == <<"s", "t", "e", "a", "m", ":", "/", "/", "s", "t", "o", "r", "e", "/">>  \* "steam://store/"
SteamOpenUrlPrefix == <<"s", "t", "e", "a", "m", ":", "/", "/", "o", "p", "e", "n", "u", "r", "l", "/">>  \* "steam://openurl/"
Digits42 == <<"4", "2">>  \* "42"
Digits7 == <<"7">>  \* "7"
NotAUrl == <<"n", "o", "t", " ", "a", " ", "u", "r", "l">>  \* "not a url"
DARK == <<"d", "a", "r", "k">>  \* "dark"
LIGHT == <<"l", "i", "g", "h", "t">>  \* "light"
BLUE == <<"b", "l", "u", "e">>  \* "blue"
DARKER == <<"d", "a", "r", "k", "e", "r">>  \* "darker"
EMPTY == <<>>  \* ""
CssPrefix == <<"c", "s", "s", "/">>  \* "css/"
CssSuffix == <<".", "c", "s", "s">>  \* ".css"
UpperLetters == <<"A", "B", "C", "D", "E", "F", "G", "H", "I", "J", "K", "L", "M", "N", "O", "P", "Q", "R", "S", "T", "U", "V", "W", "X", "Y", "Z">>
LowerLetters == <<"a", "b", "c", "d", "e", "f", "g", "h", "i", "j", "k", "l", "m", "n", "o", "p", "q", "r", "s", "t", "u", "v", "w", "x", "y", "z">>
DigitChars == {"0", "1", "2", "3", "4", "5", "6", "7", "8", "9"}
Pct20 == <<"%", "2", "0">>  \* "%20"
Pct25 == <<"%", "2", "5">>  \* "%25"

\* String.prototype.toLowerCase on one character (the regular expression's i flag)
LowerChar(c) ==
    IF \E i \in 1..Len(UpperLetters) : UpperLetters[i] = c
    THEN LowerLetters[CHOOSE i \in 1..Len(UpperLetters) : UpperLetters[i] = c]
    ELSE c

ToLower(s) == [i \in 1..Len(s) |-> LowerChar(s[i])]

StartsWith(s, p) == Len(s) >= Len(p) /\ SubSeq(s, 1, Len(p)) = p

\* String.prototype.includes
Includes(s, p) == \E i \in 1..(Len(s) + 1) : i + Len(p) - 1 <= Len(s) /\ SubSeq(s, i, i + Len(p) - 1) = p

-----------------------------------------------------------------------------
(* JavaScript values handed to the link resolver                           *)

JsString(s) == [type |-> "string", chars |-> s]
JsNull == [type |-> "null", chars |-> <<>>]
JsUndefined == [type |-> "undefined", chars |-> <<>>]
JsNumber == [type |-> "number", chars |-> <<>>]

-----------------------------------------------------------------------------
(* steamUtils.js: classification of the url                                *)

\* /^https?:\/\/(store\.steampowered\.com|steamcommunity\.com)\//i
SteamHostPrefixes ==
    {sch \o h \o <<"/">> : sch \in {SchemeHttp, SchemeHttps}, h \in {HostStore, HostCommunity}}

IsSteamHost(u) == \E p \in SteamHostPrefixes : StartsWith(ToLower(u), p)

\* the places where /\/app\/(\d+)/ can match: "/app/" followed by a digit
AppMatchStarts(u) ==
    {i \in 1..Len(u) : /\ i + 5 <= Len(u)
                       /\ SubSeq(u, i, i + 4) = AppSlash
                       /\ u[i + 5] \in DigitChars}

\* the last index of the run of digits that starts at k (\d+ is greedy)
DigitRunEnd(u, k) ==
    CHOOSE j \in k..Len(u) :
        /\ \A m \in k..j : u[m] \in DigitChars
        /\ (j = Len(u) \/ u[j + 1] \notin DigitChars)

\* steamUrl.match(/\/app\/(\d+)/): capture group 1 of the leftmost match, <<>> when
\* there is no match (appMatch is null)
AppMatch(u) ==
    IF AppMatchStarts(u) = {} THEN <<>>
    ELSE LET i == CHOOSE a \in AppMatchStarts(u) : \A b \in AppMatchStarts(u) : a <= b
         IN SubSeq(u, i + 5, DigitRunEnd(u, i + 5))

\* encodeURI on one character of the model's alphabet: letters, digits and the
\* reserved characters : / ? = . are kept, the space and the percent sign are escaped
EncodeChar(c) ==
    CASE c = " " -> Pct20
      [] c = "%" -> Pct25
      [] OTHER -> <<c>>

RECURSIVE EncodeURI(_)
EncodeURI(s) == IF s = <<>> THEN <<>> ELSE EncodeChar(Head(s)) \o EncodeURI(Tail(s))

\* lines 25-33: the steam:// URL of a recognized-host url
SteamProtocolUrl(u) ==
    IF AppMatch(u) # <<>>
    THEN SteamStorePrefix \o AppMatch(u)
    ELSE SteamOpenUrlPrefix \o EncodeURI(u)

\* Classify without the test of line 14 for the empty string
Classify_NoEmptyCheck(v) ==
    IF v.type # "string" THEN "ignored"
    ELSE IF ~IsSteamHost(v.chars) THEN "web"
    ELSE "handoff"

\* lines 14-35: what tryOpenSteamFromWebUrl does with its argument
Classify(v) ==
    IF v.type # "string" \/ Len(v.chars) = 0 THEN "ignored"
    ELSE IF ~IsSteamHost(v.chars) THEN "web"
    ELSE "handoff"

-----------------------------------------------------------------------------
(* steamUtils.js: one call of tryOpenSteamFromWebUrl and its closure       *)

\* The record of a call that set up nothing: no frame, no listener, no timer.
\*   first is a history field: whether the fallback timer ("timeout") or a
\*   window-blur / visibility-hidden event ("signal") came first after the call.
InertCall(v) ==
    [input |-> v, outcome |-> "ignored", proto |-> <<>>,
     steamDetected |-> FALSE, timeoutId |-> "none", loadTimer |-> "none",
     frame |-> "none", frameSrc |-> <<>>, navigated |-> <<>>,
     blurL |-> FALSE, visL |-> FALSE, opened |-> <<>>, first |-> "none"]

\* window.open(steamUrl, '_blank', 'noopener,noreferrer')
WindowOpen(c) == [c EXCEPT !.opened = Append(@, c.input.chars)]

\* checkSteamAvailability up to its return: the frame is created and appended, both
\* listeners are added, the 100 ms fallback timer and the 10 ms load timer are set
CheckSteamAvailability(c, steamProtocolUrl) ==
    [c EXCEPT !.outcome = "handoff", !.proto = steamProtocolUrl,
              !.steamDetected = FALSE, !.timeoutId = "armed", !.loadTimer = "armed",
              !.frame = "attached", !.blurL = TRUE, !.visL = TRUE]

TryOpenSteamFromWebUrl(v) ==
    CASE Classify(v) = "ignored" -> InertCall(v)
      [] Classify(v) = "web" -> WindowOpen([InertCall(v) EXCEPT !.outcome = "web"])
      [] OTHER -> CheckSteamAvailability(InertCall(v), SteamProtocolUrl(v.chars))

\* const cleanup: clearTimeout(timeoutId) and removal of the frame if still attached
Cleanup(c) ==
    [c EXCEPT !.timeoutId = IF @ = "armed" THEN "cleared" ELSE @,
              !.frame = IF @ = "attached" THEN "removed" ELSE @]

\* const handleFocusChange, added with { once: true }: the browser removes it as it runs
HandleFocusChange(c) == Cleanup([c EXCEPT !.steamDetected = TRUE, !.blurL = FALSE])

\* handleVisibilityChange with the test of document.hidden inverted
HandleVisibilityChange_Inverted(c, hidden) ==
    IF ~hidden /\ ~c.steamDetected
    THEN Cleanup([c EXCEPT !.steamDetected = TRUE])
    ELSE c

\* const handleVisibilityChange; hidden is document.hidden as the event is dispatched
HandleVisibilityChange(c, hidden) ==
    IF hidden /\ ~c.steamDetected
    THEN Cleanup([c EXCEPT !.steamDetected = TRUE])
    ELSE c

\* the callback of the 100 ms timer
FallbackTimeout(c) ==
    LET afterOpen == IF ~c.steamDetected THEN WindowOpen(c) ELSE c
    IN Cleanup([afterOpen EXCEPT !.timeoutId = "fired", !.blurL = FALSE, !.visL = FALSE])

\* the callback of the 10 ms timer with its test of steamDetected left out
FrameLoadTimeout_NoCheck(c) ==
    [c EXCEPT !.loadTimer = "fired", !.frameSrc = c.proto,
              !.navigated = IF c.frame = "attached" THEN c.proto ELSE @]

\* the callback of the 10 ms timer; a frame navigates when its src is set while it is
\* attached to the document
FrameLoadTimeout(c) ==
    IF ~c.steamDetected
    THEN [c EXCEPT !.loadTimer = "fired", !.frameSrc = c.proto,
                   !.navigated = IF c.frame = "attached" THEN c.proto ELSE @]
    ELSE [c EXCEPT !.loadTimer = "fired"]

\* history: a blur or visibility-hidden event reaches a handoff before its timer did
NoteSignal(c) ==
    IF c.outcome = "handoff" /\ c.first = "none" THEN [c EXCEPT !.first = "signal"] ELSE c

NoteTimeout(c) ==
    IF c.first = "none" THEN [c EXCEPT !.first = "timeout"] ELSE c

-----------------------------------------------------------------------------
(* The inputs of the link resolver                                         *)

Schemes == {SchemeHttps, SchemeHttp, SchemeUpper, SchemeFtp}
Hosts == {HostStore, HostCommunity, HostStoreCaps, HostOther, HostLookalike}
Paths == {PathNone, PathRoot, PathApp, PathAppBare, PathAppNoDigits, PathSearch, PathGroup}

ResolverInputs ==
    {JsString(s \o h \o p) : s \in Schemes, h \in Hosts, p \in Paths}
        \cup {JsString(EMPTY), JsString(NotAUrl), JsNull, JsUndefined, JsNumber}

RaceInputs ==
    {JsString(SchemeHttps \o HostStore \o PathApp),
     JsString(SchemeHttps \o HostCommunity \o PathGroup)}

-----------------------------------------------------------------------------
(* Actions of the handoff                                                  *)

\* a click handler calls tryOpenSteamFromWebUrl(v)
Invoke(v) ==
    /\ calls' = Append(calls, TryOpenSteamFromWebUrl(v))
    /\ UNCHANGED <<winFocused, docHidden, visChanges, themeVars, bootVars, pageVars>>

\* the window loses focus: 'blur' is dispatched to every blur listener still attached
Blur ==
    /\ winFocused
    /\ winFocused' = FALSE
    /\ calls' = [i \in DOMAIN calls |->
                    NoteSignal(IF calls[i].blurL THEN HandleFocusChange(calls[i]) ELSE calls[i])]
    /\ UNCHANGED <<docHidden, visChanges, themeVars, bootVars, pageVars>>

\* the window regains focus; nothing listens for it
Focus ==
    /\ ~winFocused
    /\ winFocused' = TRUE
    /\ UNCHANGED <<calls, docHidden, visChanges, themeVars, bootVars, pageVars>>

\* the page becomes hidden or visible: 'visibilitychange' is dispatched to every
\* visibilitychange listener still attached
VisibilityChange ==
    /\ visChanges < MaxVisChanges
    /\ visChanges' = visChanges + 1
    /\ docHidden' = ~docHidden
    /\ calls' = [i \in DOMAIN calls |->
                    LET c == IF calls[i].visL
                             THEN HandleVisibilityChange(calls[i], docHidden')
                             ELSE calls[i]
                    IN IF docHidden' THEN NoteSignal(c) ELSE c]
    /\ UNCHANGED <<winFocused, themeVars, bootVars, pageVars>>

\* the 10 ms timer of call i fires
FrameLoadTimer(i) ==
    /\ calls[i].loadTimer = "armed"
    /\ calls' = [calls EXCEPT ![i] = FrameLoadTimeout(calls[i])]
    /\ UNCHANGED <<winFocused, docHidden, visChanges, themeVars, bootVars, pageVars>>

\* the 100 ms timer of call i fires; it was set in the same task as the 10 ms timer
\* and is due 90 ms after it, so it runs after it
FallbackTimer(i) ==
    /\ calls[i].timeoutId = "armed"
    /\ calls[i].loadTimer # "armed"
    /\ calls' = [calls EXCEPT ![i] = NoteTimeout(FallbackTimeout(calls[i]))]
    /\ UNCHANGED <<winFocused, docHidden, visChanges, themeVars, bootVars, pageVars>>

-----------------------------------------------------------------------------
(* themeManager.js                                                         *)

\* localStorage.getItem('theme'): a string, or null when the key is absent
Item(s) == [present |-> TRUE, chars |-> s]
NoItem == [present |-> FALSE, chars |-> <<>>]

\* "ok": reads and writes work; "denied": every access to localStorage throws
\* (SecurityError, storage blocked); "readonly": getItem works and setItem throws
\* (QuotaExceededError)
StorageModes == {"ok", "denied", "readonly"}

StoredValues == {NoItem, Item(DARK), Item(LIGHT), Item(BLUE), Item(DARKER), Item(EMPTY)}

Themes == {DARK, LIGHT}

\* `css/${theme}.css`
CssHref(theme) == CssPrefix \o theme \o CssSuffix

ReadThrows == storageMode = "denied"
WriteThrows == storageMode # "ok"

\* getStoredTheme: localStorage.getItem('theme') || 'dark'  (null and "" are falsy)
GetStoredTheme ==
    IF stored.present /\ stored.chars # <<>> THEN stored.chars ELSE DARK

\* getCurrentTheme applied to an href: href.includes('dark') ? 'dark' : 'light'
CurrentThemeOf(href) == IF Includes(href, DARK) THEN DARK ELSE LIGHT

GetCurrentTheme == CurrentThemeOf(themeHref)

\* setTheme, lines 52-55: an invalid theme is replaced by 'dark'
ValidatedTheme(theme) == IF theme \in Themes THEN theme ELSE DARK

\* the click handler's choice with both branches 'light'
OtherTheme_AlwaysLight(theme) == IF theme = DARK THEN LIGHT ELSE LIGHT

\* the click handler's choice: currentTheme === 'dark' ? 'light' : 'dark'
OtherTheme(theme) == IF theme = DARK THEN LIGHT ELSE DARK

\* setTheme without the localStorage.setItem of line 61
SetTheme_NoPersist(r, theme) ==
    LET t == ValidatedTheme(theme)
    IN [r EXCEPT !.href = CssHref(t), !.dataTheme = t]

\* setTheme on a record r of the document's theme state (href, stored, dataTheme,
\* threw). The href is set first; localStorage.setItem may throw, and then the
\* data-theme attribute is not reached.
SetTheme(r, theme) ==
    LET t == ValidatedTheme(theme)
    IN IF WriteThrows
       THEN [r EXCEPT !.href = CssHref(t),
                      !.threw = IF ReadThrows THEN "SecurityError" ELSE "QuotaExceededError"]
       ELSE [r EXCEPT !.href = CssHref(t), !.stored = Item(t), !.dataTheme = t]

\* setupThemeToggle(toggleBtn): getStoredTheme, setTheme(savedTheme), then the click
\* listener is added; a throw leaves the button without listener
SetupThemeToggle(r) ==
    IF ReadThrows THEN [r EXCEPT !.threw = "SecurityError"]
    ELSE LET s == SetTheme(r, GetStoredTheme)
         IN IF s.threw # "none" THEN s ELSE [s EXCEPT !.installed = TRUE]

-----------------------------------------------------------------------------
(* The content document                                                    *)

\* header:   "absent" | "plain" (title only) | "logo" (logo and social links)
\*           | "nullLink" (logo, and a null entry in socialLinks)
\* sections: "absent" | "empty" ([]) | "text" (items without image)
\*           | "image" (the first item has an image) | "nullSection" (a null entry)
\* footer:   "absent" | "ok" | "nullLink" (a null entry in links)
\* modals:   "absent" | "ok" | "nullEntry" (a null entry in the array)
GoodDoc == [isNull |-> FALSE, meta |-> TRUE, header |-> "logo", sections |-> "image",
            footer |-> "ok", modals |-> "ok"]

\* the JSON text "null": response.json() resolves with null
NullDoc == [isNull |-> TRUE, meta |-> FALSE, header |-> "absent", sections |-> "absent",
            footer |-> "absent", modals |-> "absent"]

NoDoc == [isNull |-> FALSE, meta |-> FALSE, header |-> "absent", sections |-> "absent",
          footer |-> "absent", modals |-> "absent"]

\* the documents of the model: the full document, each of its one-field variations,
\* the empty object and null
Docs ==
    {GoodDoc, NullDoc, NoDoc}
        \cup {[GoodDoc EXCEPT !.meta = FALSE]}
        \cup {[GoodDoc EXCEPT !.header = h] : h \in {"absent", "plain", "nullLink"}}
        \cup {[GoodDoc EXCEPT !.sections = s] : s \in {"absent", "empty", "text", "nullSection"}}
        \cup {[GoodDoc EXCEPT !.footer = f] : f \in {"absent", "nullLink"}}
        \cup {[GoodDoc EXCEPT !.modals = m] : m \in {"absent", "nullEntry"}}

\* how the fetch of data/data.json ends: with a document, or with a rejection
FetchFailures == {"NetworkError", "HttpError", "SyntaxError"}

-----------------------------------------------------------------------------
(* The renderers, on a record r of what the render pass has done so far:   *)
(* ran, done, threw, imgs (critical images put in the document), main, and *)
(* the theme state href, stored, dataTheme, installed.                     *)

\* renderMetaData(meta): updates the document's metadata
RenderMetaData(r, d) == r

\* renderHeader(header): logo, title, subtitle, then createHeaderRightSection, which
\* builds the social links (link.url of a null entry is a TypeError) and then calls
\* setupThemeToggle
RenderHeader(r, d) ==
    LET withLogo == IF d.header \in {"logo", "nullLink"}
                    THEN [r EXCEPT !.imgs = @ \cup {"logo"}] ELSE r
    IN IF d.header = "nullLink"
       THEN [withLogo EXCEPT !.threw = "TypeError"]
       ELSE SetupThemeToggle(withLogo)

\* renderSections(sections): #main-content is cleared; an empty array returns; a null
\* section is a TypeError at section.title; images are created with src set
RenderSections(r, d) ==
    CASE d.sections = "empty" -> [r EXCEPT !.main = "cleared"]
      [] d.sections = "nullSection" -> [r EXCEPT !.main = "cleared", !.threw = "TypeError"]
      [] d.sections = "image" -> [r EXCEPT !.main = "sections", !.imgs = @ \cup {"item"}]
      [] OTHER -> [r EXCEPT !.main = "sections"]

\* renderFooter(footerData): link.name of a null entry in links is a TypeError
RenderFooter(r, d) ==
    IF d.footer = "nullLink" THEN [r EXCEPT !.threw = "TypeError"] ELSE r

\* renderModals(modals): attachModalLinkHandlers maps m => m.id over the array, a
\* TypeError on a null entry
RenderModals(r, d) ==
    IF d.modals = "nullEntry" THEN [r EXCEPT !.threw = "TypeError"] ELSE r

\* one line `if (data.x) renderX(data.x)` of initializeApp: skipped once an earlier
\* statement has thrown
Step(r, name, present, after) ==
    IF r.threw # "none" \/ ~present THEN r
    ELSE LET a == [after EXCEPT !.ran = Append(r.ran, name)]
         IN IF a.threw # "none" THEN a ELSE [a EXCEPT !.done = @ \cup {name}]

RenderStart ==
    [ran |-> <<>>, done |-> {}, threw |-> "none", imgs |-> {}, main |-> mainContent,
     href |-> themeHref, stored |-> stored, dataTheme |-> dataTheme,
     installed |-> toggle.installed]

\* initializeApp, lines 333-337; data.meta of null is a TypeError
RenderAll(d) ==
    IF d.isNull THEN [RenderStart EXCEPT !.threw = "TypeError"]
    ELSE LET r1 == Step(RenderStart, "meta", d.meta, RenderMetaData(RenderStart, d))
             r2 == Step(r1, "header", d.header # "absent", RenderHeader(r1, d))
             r3 == Step(r2, "sections", d.sections # "absent", RenderSections(r2, d))
             r4 == Step(r3, "footer", d.footer # "absent", RenderFooter(r3, d))
             r5 == Step(r4, "modals", d.modals # "absent", RenderModals(r4, d))
         IN r5

-----------------------------------------------------------------------------
(* index.js: the bootstrap                                                 *)

\* the images waitForAboveFoldImages looks for: .site-logo[src] and the first
\* .item-image[src]
CriticalImages == {"logo", "item"}

\* applySavedTheme: the stored theme goes to the stylesheet href and to data-theme
\* as it is read
ApplySavedTheme ==
    /\ themeHref' = CssHref(GetStoredTheme)
    /\ dataTheme' = GetStoredTheme

\* lines 348-349: hide the spinner, show the app
Reveal ==
    /\ spinner' = "none"
    /\ appContent' = "block"

\* the catch block without lines 353-354
CatchBlock_NoReveal(error) ==
    /\ caught' = error
    /\ UNCHANGED <<spinner, appContent>>

\* the catch block, lines 351-354
CatchBlock(error) ==
    /\ caught' = error
    /\ spinner' = "none"
    /\ appContent' = "block"

\* dataLoader.js displayError(message): the message replaces #main-content
DisplayError == mainContent' = "error"

\* initializeApp up to its first await, with the latch of lines 313-314 left out
CallInitializeApp_NoLatch ==
    /\ initCalls < MaxInitCalls
    /\ initCalls' = initCalls + 1
    /\ isInitialized' = TRUE
    /\ pc' = "fonts"
    /\ UNCHANGED <<pageVars, steamVars, themeVars, doc, caught, ran, done, mainContent,
                   spinner, appContent, images, waiting, errorEvents, rejections>>

\* DOMContentLoaded, or a call of window.refreshApp: initializeApp up to its first
\* await (the latch, cleanupURL, the font race)
CallInitializeApp ==
    /\ initCalls < MaxInitCalls
    /\ initCalls' = initCalls + 1
    /\ IF isInitialized
       THEN UNCHANGED <<isInitialized, pc>>
       ELSE /\ isInitialized' = TRUE
            /\ pc' = "fonts"
    /\ UNCHANGED <<pageVars, steamVars, themeVars, doc, caught, ran, done, mainContent,
                   spinner, appContent, images, waiting, errorEvents, rejections>>

\* the font race settles (the font loaded, or 800 ms passed): applySavedTheme, then
\* loadData is called and awaited; getStoredTheme throwing lands in the catch block
FontWaitOver ==
    /\ pc = "fonts"
    /\ IF ReadThrows
       THEN /\ CatchBlock("SecurityError")
            /\ pc' = "done"
            /\ UNCHANGED <<themeHref, dataTheme>>
       ELSE /\ ApplySavedTheme
            /\ pc' = "fetch"
            /\ UNCHANGED <<caught, spinner, appContent>>
    /\ UNCHANGED <<pageVars, steamVars, storageMode, preloads, stored, toggle, isInitialized, initCalls, doc, ran, done,
                   mainContent, images, waiting, errorEvents, rejections>>

\* loadData rejects, with the renderers run all the same on an empty document
FetchFails_RendersAnyway(e) ==
    /\ pc = "fetch"
    /\ CatchBlock(e)
    /\ pc' = "done"
    /\ ran' = <<"meta">>
    /\ UNCHANGED <<pageVars, steamVars, themeVars, isInitialized, initCalls, doc, done,
                   mainContent, images, waiting, errorEvents, rejections>>

\* loadData rejects: fetch rejected, response.ok was false, or response.json() rejected;
\* loadData logs and rethrows, initializeApp catches
FetchFails(e) ==
    /\ pc = "fetch"
    /\ CatchBlock(e)
    /\ pc' = "done"
    /\ UNCHANGED <<pageVars, steamVars, themeVars, isInitialized, initCalls, doc, ran, done, mainContent,
                   images, waiting, errorEvents, rejections>>

\* loadData resolves with d: the renderers run in one task; then either the catch
\* block runs or waitForAboveFoldImages is called and awaits an animation frame
FetchSucceeds(d) ==
    /\ pc = "fetch"
    /\ LET r == RenderAll(d)
       IN /\ doc' = d
          /\ ran' = r.ran
          /\ done' = r.done
          /\ mainContent' = r.main
          /\ themeHref' = r.href
          /\ stored' = r.stored
          /\ dataTheme' = r.dataTheme
          /\ toggle' = IF r.installed
                       THEN [toggle EXCEPT !.installed = TRUE, !.history = <<r.href>>]
                       ELSE toggle
          /\ images' = [i \in CriticalImages |-> IF i \in r.imgs THEN "loading" ELSE "none"]
          /\ IF r.threw # "none"
             THEN /\ CatchBlock(r.threw)
                  /\ pc' = "done"
             ELSE /\ pc' = "frame"
                  /\ UNCHANGED <<caught, spinner, appContent>>
    /\ UNCHANGED <<pageVars, steamVars, storageMode, preloads, isInitialized, initCalls, waiting, errorEvents, rejections>>

\* waitForAboveFoldImages after its animation frame: the critical images are
\* collected; one that is complete with naturalWidth # 0 resolves at once, the others
\* get load and error listeners
AnimationFrame ==
    /\ pc = "frame"
    /\ waiting' = {i \in CriticalImages : images[i] \in {"loading", "failed"}}
    /\ IF waiting' = {}
       THEN Reveal /\ pc' = "done"
       ELSE pc' = "images" /\ UNCHANGED <<spinner, appContent>>
    /\ UNCHANGED <<pageVars, steamVars, themeVars, isInitialized, initCalls, doc, caught, ran, done,
                   mainContent, images, errorEvents, rejections>>

\* image i finishes loading (how = "loaded") or fails (how = "failed"); if
\* waitForAboveFoldImages listens to it, its promise resolves, and when the last one
\* has, the page is revealed
ImageSettles(i, how) ==
    /\ images[i] = "loading"
    /\ images' = [images EXCEPT ![i] = how]
    /\ waiting' = waiting \ {i}
    /\ IF pc = "images" /\ waiting' = {}
       THEN Reveal /\ pc' = "done"
       ELSE UNCHANGED <<pc, spinner, appContent>>
    /\ UNCHANGED <<pageVars, steamVars, themeVars, isInitialized, initCalls, doc, caught, ran, done,
                   mainContent, errorEvents, rejections>>

\* the window 'error' handler, lines 377-382: it logs the error
WindowError ==
    /\ errorEvents < MaxErrorEvents
    /\ errorEvents' = errorEvents + 1
    /\ UNCHANGED <<pageVars, steamVars, themeVars, isInitialized, initCalls, pc, doc, caught, ran, done,
                   mainContent, spinner, appContent, images, waiting, rejections>>

\* the 'unhandledrejection' handler, lines 387-395: it logs and calls displayError
UnhandledRejection ==
    /\ rejections < MaxErrorEvents
    /\ rejections' = rejections + 1
    /\ DisplayError
    /\ UNCHANGED <<pageVars, steamVars, themeVars, isInitialized, initCalls, pc, doc, caught, ran, done,
                   spinner, appContent, images, waiting, errorEvents>>

\* the click listener of the theme toggle: setTheme(the other theme), and the flag
\* of the mouseenter listener is reset
ToggleClick ==
    /\ toggle.installed
    /\ toggle.clicks < MaxToggles
    /\ LET r == SetTheme([href |-> themeHref, stored |-> stored, dataTheme |-> dataTheme,
                          threw |-> "none"], OtherTheme(GetCurrentTheme))
       IN /\ themeHref' = r.href
          /\ stored' = r.stored
          /\ dataTheme' = r.dataTheme
          /\ toggle' = [toggle EXCEPT !.clicks = @ + 1, !.history = Append(@, r.href),
                                       !.isPreloaded = FALSE]
    /\ UNCHANGED <<pageVars, steamVars, storageMode, preloads, bootVars>>

\* preloadAlternateTheme(alternateTheme), lines 71-84: nothing if link#preload-<theme>
\* exists, else the link is appended to document.head
PreloadAlternateTheme(links, alternateTheme) == links \cup {alternateTheme}

\* the mouseenter listener of the theme toggle, lines 27-34
ToggleHover ==
    /\ toggle.installed
    /\ IF ~toggle.isPreloaded
       THEN /\ preloads' = PreloadAlternateTheme(preloads, OtherTheme(GetCurrentTheme))
            /\ toggle' = [toggle EXCEPT !.isPreloaded = TRUE]
       ELSE UNCHANGED <<preloads, toggle>>
    /\ UNCHANGED <<pageVars, steamVars, storageMode, stored, themeHref, dataTheme, bootVars>>

-----------------------------------------------------------------------------
(* modalRenderer (unnamed/part_002): the modals                            *)

IdPrivacy == <<"p", "r", "i", "v", "a", "c", "y">>
IdTerms == <<"t", "e", "r", "m", "s">>
IdNoSuch == <<"f", "a", "q">>
ModalIds == {IdPrivacy, IdTerms}

\* `#${id}`
Hash(id) == <<"#">> \o id

\* location.hash.replace('#', ''): the first "#" is removed
StripHash(h) ==
    LET at == {k \in 1..Len(h) : h[k] = "#"}
    IN IF at = {} THEN h
       ELSE LET k == CHOOSE x \in at : \A y \in at : x <= y
            IN SubSeq(h, 1, k - 1) \o SubSeq(h, k + 1, Len(h))

\* the fragments the address bar can hold
Hashes == {<<>>} \cup {Hash(id) : id \in ModalIds \cup {IdNoSuch}}

\* an entry of data.modals: null, or an object with an id and (with hasTitle) a title
ModalEntry(id, hasTitle) == [isNull |-> FALSE, id |-> id, hasTitle |-> hasTitle]
NullEntry == [isNull |-> TRUE, id |-> <<>>, hasTitle |-> FALSE]

\* the arrays renderModals is called with
ModalLists ==
    {<<>>,
     <<ModalEntry(IdPrivacy, TRUE)>>,
     <<ModalEntry(IdPrivacy, TRUE), ModalEntry(IdTerms, TRUE)>>,
     <<ModalEntry(IdPrivacy, TRUE), ModalEntry(IdTerms, FALSE)>>,
     <<ModalEntry(IdPrivacy, TRUE), ModalEntry(IdPrivacy, TRUE)>>,
     <<ModalEntry(IdPrivacy, TRUE), NullEntry>>}

\* the footer links a[href="#privacy"] and a[href="#terms"] the page carries, the
\* close button of each overlay, and document.body (document.activeElement when no
\* control has focus)
LinkOf(id) == [kind |-> "link", id |-> id]
CloseButtonOf(id) == [kind |-> "close", id |-> id]
Body == [kind |-> "body", id |-> <<>>]
PageLinks == ModalIds
Controls == {Body} \cup {LinkOf(id) : id \in PageLinks} \cup {CloseButtonOf(id) : id \in ModalIds}

\* element.focus(): a link or a button takes focus; document.body and the h2 title
\* (created without tabindex, lines 40-43) are not focusable areas, so focus() on them
\* leaves document.activeElement as it is
Focusable(e) == e.kind \in {"link", "close"}
FocusOn(m, e) == IF Focusable(e) THEN [m EXCEPT !.activeElement = e] ELSE m

NoFocus == [kind |-> "null", id |-> <<>>]

\* the page before renderModals has run, with fragment h in the address bar
ModalStart(h) ==
    [rendered |-> FALSE,         \* renderModals returned normally
     threw |-> "none",           \* what renderModals threw
     list |-> <<>>,              \* the array renderModals closed over
     overlays |-> {},            \* ids with an element #modal-<id>
     open |-> {},                \* overlays with class open / aria-hidden false
     overflow |-> "",            \* document.body.style.overflow
     hash |-> h,                 \* location.hash
     linkHandlers |-> {},        \* links with the click listener of line 109
     hashListener |-> FALSE,     \* the hashchange listener of line 93 is attached
     activeElement |-> Body,     \* document.activeElement
     lastFocus |-> NoFocus,      \* let lastFocus
     keyListeners |-> {},        \* keydown listeners on document: [n, id]
     escHandler |-> [id \in ModalIds |-> 0],   \* overlay.__escHandler, 0 when unset
     opens |-> 0,                \* escHandler closures created so far
     apiCalls |-> 0,             \* history: direct calls of openModal
     arg |-> <<>>,               \* history: argument of the last direct call
     before |-> [id \in ModalIds |-> Body]]    \* history: focus when id was opened

\* openModal(id), lines 122-143, with the overlay check of line 124 left out
OpenModal_NoOverlayCheck(m, id) ==
    [m EXCEPT !.lastFocus = m.activeElement,
              !.open = IF id \in ModalIds THEN @ \cup {id} ELSE @,
              !.overflow = "hidden",
              !.hash = Hash(id),
              !.opens = @ + 1,
              !.keyListeners = @ \cup {[n |-> m.opens + 1, id |-> id]},
              !.escHandler = [i \in ModalIds |-> IF i = id THEN m.opens + 1 ELSE @[i]]]

\* openModal(id), lines 122-143
OpenModal(m, id) ==
    IF id \notin m.overlays THEN m
    ELSE [m EXCEPT !.lastFocus = m.activeElement,
                   !.open = @ \cup {id},
                   !.overflow = "hidden",
                   !.hash = Hash(id),
                   !.opens = @ + 1,
                   !.keyListeners = @ \cup {[n |-> m.opens + 1, id |-> id]},
                   !.escHandler[id] = m.opens + 1]

\* closeModal(id), lines 149-166
CloseModal(m, id) ==
    IF id \notin m.overlays THEN m
    ELSE LET focused == IF m.lastFocus # NoFocus THEN FocusOn(m, m.lastFocus) ELSE m
         IN [focused EXCEPT !.open = @ \ {id},
                            !.overflow = "",
                            !.hash = IF @ = Hash(id) THEN <<>> ELSE @,
                            !.keyListeners = {l \in @ : l.n # m.escHandler[id]},
                            !.escHandler[id] = 0]

\* the entries of the array that have id
HasId(list, id) == \E k \in DOMAIN list : ~list[k].isNull /\ list[k].id = id

\* the hash handling of lines 86-90 and of the hashchange listener, lines 93-97
OpenOnHash(m) ==
    IF m.hash # <<>> /\ HasId(m.list, StripHash(m.hash))
    THEN OpenModal(m, StripHash(m.hash)) ELSE m

\* renderModals, lines 86-90 left out
RenderModals_NoHashOpen(m, list) ==
    IF list = <<>> THEN m
    ELSE LET built == [m EXCEPT !.list = list,
                                !.overlays = @ \cup {list[k].id : k \in
                                    {j \in DOMAIN list : ~list[j].isNull /\ list[j].id # <<>>
                                                          /\ list[j].hasTitle}}]
         IN IF \E k \in DOMAIN list : list[k].isNull
            THEN [built EXCEPT !.threw = "TypeError"]
            ELSE [built EXCEPT !.linkHandlers = {id \in PageLinks : HasId(list, id)},
                               !.hashListener = TRUE,
                               !.rendered = TRUE]

\* renderModals(modals), lines 10-98: an empty array returns at once; an overlay is
\* built for each entry with id and title; attachModalLinkHandlers reads m.id of every
\* entry (a TypeError on null); then the fragment is looked at and the hashchange
\* listener attached
RenderModalsCall(m, list) ==
    IF list = <<>> THEN m
    ELSE LET built == [m EXCEPT !.list = list,
                                !.overlays = @ \cup {list[k].id : k \in
                                    {j \in DOMAIN list : ~list[j].isNull /\ list[j].id # <<>>
                                                          /\ list[j].hasTitle}}]
         IN IF \E k \in DOMAIN list : list[k].isNull
            THEN [built EXCEPT !.threw = "TypeError"]
            ELSE [OpenOnHash([built EXCEPT !.linkHandlers =
                                               {id \in PageLinks : HasId(list, id)}])
                     EXCEPT !.hashListener = TRUE, !.rendered = TRUE]

\* a keydown event with key 'Escape': the listeners attached when the dispatch starts
\* run in the order they were added; one removed meanwhile is not run
RECURSIVE DispatchEscape(_, _)
DispatchEscape(m, pending) ==
    IF pending = {} THEN m
    ELSE LET l == CHOOSE x \in pending : \A y \in pending : x.n <= y.n
         IN DispatchEscape(IF l \in m.keyListeners THEN CloseModal(m, l.id) ELSE m,
                           pending \ {l})

\* history: the control that had focus when a modal went from closed to open
NoteOpened(old, new) ==
    [new EXCEPT !.before = [id \in ModalIds |->
                               IF id \in new.open \ old.open THEN old.activeElement
                               ELSE old.before[id]]]

-----------------------------------------------------------------------------
(* Actions of the modals                                                   *)

\* initializeApp reaches renderModals(data.modals)
RenderModalsRuns(list) ==
    /\ ~modal.rendered
    /\ modal.threw = "none"
    /\ modal.list = <<>>
    /\ list # <<>>
    /\ modal' = NoteOpened(modal, RenderModalsCall(modal, list))
    /\ UNCHANGED <<steamVars, themeVars, bootVars, linkVars, rendered>>

\* a call of the exported openModal(id)
OpenModalCalled(id) ==
    /\ modal.apiCalls < MaxModalCalls
    /\ modal.opens < MaxOpens
    /\ modal' = NoteOpened(modal, [OpenModal(modal, id) EXCEPT !.apiCalls = @ + 1,
                                                                !.arg = id])
    /\ UNCHANGED <<steamVars, themeVars, bootVars, linkVars, rendered>>

\* the user activates the footer link a[href="#id"]; it may take focus by that. With
\* the listener of line 109 the default is prevented and openModal(id) runs; without
\* it the browser navigates to the fragment, which is the action HashChange
LinkClick(id, takesFocus) ==
    /\ id \in modal.linkHandlers
    /\ modal.opens < MaxOpens
    /\ LET m == IF takesFocus THEN FocusOn(modal, LinkOf(id)) ELSE modal
       IN modal' = NoteOpened(m, OpenModal(m, id))
    /\ UNCHANGED <<steamVars, themeVars, bootVars, linkVars, rendered>>

\* the fragment changes to h by back/forward navigation, by editing the address or by
\* a plain fragment link: the hashchange listener runs if it is attached
HashChange(h) ==
    /\ h # modal.hash
    /\ modal.opens < MaxOpens
    /\ LET m == [modal EXCEPT !.hash = h]
       IN modal' = IF modal.hashListener THEN NoteOpened(m, OpenOnHash(m)) ELSE m
    /\ UNCHANGED <<steamVars, themeVars, bootVars, linkVars, rendered>>

\* the user clicks the close button of an open modal (line 49); the button may take
\* focus by that
CloseButtonClick(id, takesFocus) ==
    /\ id \in modal.open
    /\ LET m == IF takesFocus THEN FocusOn(modal, CloseButtonOf(id)) ELSE modal
       IN modal' = CloseModal(m, id)
    /\ UNCHANGED <<steamVars, themeVars, bootVars, linkVars, rendered>>

\* the user clicks the overlay outside the dialog (lines 75-77)
OutsideClick(id) ==
    /\ id \in modal.open
    /\ modal' = CloseModal(modal, id)
    /\ UNCHANGED <<steamVars, themeVars, bootVars, linkVars, rendered>>

\* the user presses Escape
EscapeKey ==
    /\ modal.keyListeners # {}
    /\ modal' = DispatchEscape(modal, modal.keyListeners)
    /\ UNCHANGED <<steamVars, themeVars, bootVars, linkVars, rendered>>

\* the user moves focus to another control with the Tab key (nothing in the source
\* keeps focus inside an open modal)
FocusMove(e) ==
    /\ Focusable(e)
    /\ e # modal.activeElement
    /\ e.kind = "close" => e.id \in modal.open
    /\ modal' = FocusOn(modal, e)
    /\ UNCHANGED <<steamVars, themeVars, bootVars, linkVars, rendered>>

-----------------------------------------------------------------------------
(* sectionRenderer.js: the 'Open in Steam' button of an item               *)

\* createSteamButton, lines 209-210: the anchor keeps the web url as its href
SteamButtonHref(v) == v.chars

\* the click listener of createSteamButton, lines 218-234: a url with /app/<digits>
\* goes to the module's own checkSteamAvailability (lines 245-318, the same closure
\* as the one of steamUtils.js) with steam://store/<digits>; any other url is opened
\* with window.open
SteamButtonClick(v) ==
    IF AppMatch(v.chars) # <<>>
    THEN CheckSteamAvailability(InertCall(v), SteamStorePrefix \o AppMatch(v.chars))
    ELSE WindowOpen([InertCall(v) EXCEPT !.outcome = "web"])

\* item.steamUrl of the items that get a button (line 186: a truthy steamUrl)
ButtonInputs == {v \in ResolverInputs : v.type = "string" /\ v.chars # <<>>}

\* the user activates the 'Open in Steam' control of an item with steamUrl v
ActivateSteamButton(v) ==
    /\ calls' = Append(calls, SteamButtonClick(v))
    /\ UNCHANGED <<winFocused, docHidden, visChanges, themeVars, bootVars, pageVars>>

-----------------------------------------------------------------------------
(* headerRenderer (unnamed/part_001): the social links                     *)

NameSteam == <<"S", "t", "e", "a", "m">>
NameSteamCaps == <<"S", "T", "E", "A", "M">>
NameCommunity == <<"S", "t", "e", "a", "m", " ", "G", "r", "o", "u", "p">>
NameTwitter == <<"T", "w", "i", "t", "t", "e", "r">>
SteamLower == <<"s", "t", "e", "a", "m">>

\* an entry of header.socialLinks
SocialEntry(name, url) == [name |-> name, url |-> url]

SocialNames == {NameSteam, NameSteamCaps, NameCommunity, NameTwitter}
SocialUrls ==
    {JsString(SchemeHttps \o HostStore \o PathApp),
     JsString(SchemeHttps \o HostCommunity \o PathGroup),
     JsString(SchemeHttps \o HostOther \o PathRoot),
     JsString(EMPTY)}

\* the arrays createSocialLinksContainer is called with: every single entry, and
\* the pairs with a hidden entry (url "") first
SocialLists ==
    {<<SocialEntry(n, u)>> : n \in SocialNames, u \in SocialUrls}
        \cup {<<SocialEntry(NameTwitter, JsString(EMPTY)), SocialEntry(n, u)>> :
                 n \in SocialNames, u \in SocialUrls}

\* !link.url
Falsy(v) == v.type \in {"null", "undefined"} \/ (v.type = "string" /\ v.chars = <<>>)

\* createSocialLink(link), lines 230-259: the anchor gets the url as href; the click
\* listener that calls tryOpenSteamFromWebUrl is added when link.name, lowercased, is
\* "steam" and link.url is a string
CreateSocialLink(link) ==
    [href |-> link.url.chars, name |-> link.name,
     wired |-> ToLower(link.name) = SteamLower /\ link.url.type = "string"]

\* createSocialLinksContainer(socialLinks), lines 209-220: entries with a falsy url
\* are skipped
CreateSocialLinksContainer(list) ==
    LET kept == SelectSeq(list, LAMBDA l : ~Falsy(l.url))
    IN [k \in 1..Len(kept) |-> CreateSocialLink(kept[k])]

\* renderHeader reaches createHeaderRightSection with a non-empty socialLinks
RenderSocialLinks(list) ==
    /\ ~social.rendered
    /\ social' = [rendered |-> TRUE, links |-> CreateSocialLinksContainer(list)]
    /\ UNCHANGED <<steamVars, themeVars, bootVars, modal, plainNav, rendered>>

\* the user activates the k-th social link: with the click listener the default is
\* prevented and the resolver called, without it the browser opens the href
ClickSocialLink(k) ==
    /\ k \in DOMAIN social.links
    /\ Len(calls) + Len(plainNav) < MaxSocialClicks
    /\ IF social.links[k].wired
       THEN /\ calls' = Append(calls, TryOpenSteamFromWebUrl(JsString(social.links[k].href)))
            /\ UNCHANGED plainNav
       ELSE /\ plainNav' = Append(plainNav, social.links[k].href)
            /\ UNCHANGED calls
    /\ UNCHANGED <<winFocused, docHidden, visChanges, themeVars, bootVars, modal, social,
                   rendered>>

-----------------------------------------------------------------------------
(* sectionRenderer.js: the items of the sections                           *)

\* item.text: absent, a string, or an array of strings
NoText == [type |-> "undefined", chars |-> <<>>, elems |-> <<>>]
TextString(s) == [type |-> "string", chars |-> s, elems |-> <<>>]
TextList(l) == [type |-> "array", chars |-> <<>>, elems |-> l]

LineA == <<"a">>
LineB == <<"b">>
TwoLines == <<"a", "\n", "b">>
HeadingGame == <<"G", "a", "m", "e">>

TextValues ==
    {NoText, TextString(LineA), TextString(TwoLines), TextList(<<>>), TextList(<<LineA>>),
     TextList(<<LineA, LineB>>)}

\* an item of a section
SectionItem(image, heading, text) == [image |-> image, heading |-> heading, text |-> text]

\* the 5-item, 2-section document: every item has an image
FiveItems ==
    << <<SectionItem(TRUE, HeadingGame, TextString(LineA)), SectionItem(TRUE, HeadingGame, NoText),
         SectionItem(TRUE, <<>>, TextString(LineB))>>,
       <<SectionItem(TRUE, HeadingGame, TextList(<<LineA>>)), SectionItem(TRUE, <<>>, NoText)>> >>

\* the arrays renderSections is called with
SectionLists ==
    {FiveItems}
        \cup {<< <<SectionItem(i, h, t)>> >> : i \in BOOLEAN, h \in {<<>>, HeadingGame}, t \in TextValues}

\* String(array): Array.prototype.toString joins the elements with ","
RECURSIVE ArrayToString(_)
ArrayToString(l) ==
    IF l = <<>> THEN <<>>
    ELSE IF Len(l) = 1 THEN l[1]
    ELSE l[1] \o <<",">> \o ArrayToString(Tail(l))

\* the string a node gets by `textContent = v`
TextContent(v) == IF v.type = "array" THEN ArrayToString(v.elems) ELSE v.chars

\* item.text as a condition: an array is truthy, the empty string is not
TextTruthy(v) == v.type = "array" \/ (v.type = "string" /\ v.chars # <<>>)

\* createItemContent(item), lines 164-200, the Steam button apart: the heading, one
\* p.item-text whose textContent is item.text, or the empty placeholder
CreateItemContent(item) ==
    (IF item.heading # <<>> THEN <<[cls |-> "item-heading", text |-> item.heading]>> ELSE <<>>)
    \o (IF TextTruthy(item.text)
        THEN <<[cls |-> "item-text", text |-> TextContent(item.text)]>> ELSE <<>>)
    \o (IF item.heading = <<>> /\ ~TextTruthy(item.text)
        THEN <<[cls |-> "placeholder", text |-> <<>>]>> ELSE <<>>)

NoImage == [loading |-> "none", fetch |-> "none", lazyLoaded |-> FALSE]

\* createItemImage, lines 134-155: src is assigned (line 136), then loading = 'lazy'
\* (line 139), then the IntersectionObserver is set up; whether assigning src before
\* the attribute has started the fetch is the browser's choice, fetchOnSrc
CreateItemImage(fetchOnSrc) ==
    [loading |-> "lazy", fetch |-> IF fetchOnSrc THEN "immediate" ELSE "deferred",
     lazyLoaded |-> FALSE]

\* createItemElement(item), lines 107-126
CreateItemElement(item, fetchOnSrc) ==
    [item |-> item,
     img |-> IF item.image THEN CreateItemImage(fetchOnSrc) ELSE NoImage,
     content |-> CreateItemContent(item)]

\* the items of all sections in document order
RECURSIVE Flatten(_)
Flatten(secs) == IF secs = <<>> THEN <<>> ELSE Head(secs) \o Flatten(Tail(secs))

\* renderSections(sections), lines 12-34: #main-content is emptied and every item of
\* every section is created in document order
RenderSectionItems(secs, fetchOnSrc) ==
    LET all == Flatten(secs)
    IN [k \in 1..Len(all) |-> CreateItemElement(all[k], fetchOnSrc)]

\* #main-content before renderSections has run
RenderedStart == [passes |-> 0, out |-> <<>>]

\* a call of renderSections
RenderSectionsRuns(secs, fetchOnSrc) ==
    /\ rendered.passes < MaxRenderPasses
    /\ rendered' = [passes |-> rendered.passes + 1, out |-> RenderSectionItems(secs, fetchOnSrc)]
    /\ UNCHANGED <<steamVars, themeVars, bootVars, modal, linkVars>>

\* the image of the k-th item comes within 50px of the viewport: the observer callback
\* of lines 353-361 adds the class lazy-loaded, and a deferred fetch starts
ImageIntersects(k) ==
    /\ k \in DOMAIN rendered.out
    /\ rendered.out[k].img.loading # "none"
    /\ ~rendered.out[k].img.lazyLoaded
    /\ rendered' = [rendered EXCEPT !.out[k].img.lazyLoaded = TRUE,
                                    !.out[k].img.fetch = IF @ = "deferred" THEN "onApproach"
                                                         ELSE @]
    /\ UNCHANGED <<steamVars, themeVars, bootVars, modal, linkVars>>

-----------------------------------------------------------------------------
(* Specifications                                                          *)

\* the page before DOMContentLoaded, the modal subsystem apart
InitBoot ==
    /\ calls = <<>>
    /\ winFocused = TRUE
    /\ docHidden = FALSE
    /\ visChanges = 0
    /\ storageMode \in StorageModes
    /\ stored \in StoredValues
    /\ themeHref = CssHref(DARK)
    /\ dataTheme = <<>>
    /\ toggle = [installed |-> FALSE, clicks |-> 0, history |-> <<>>, isPreloaded |-> FALSE]
    /\ preloads = {}
    /\ isInitialized = FALSE
    /\ initCalls = 0
    /\ pc = "idle"
    /\ doc = NoDoc
    /\ caught = "none"
    /\ ran = <<>>
    /\ done = {}
    /\ mainContent = "initial"
    /\ spinner = "shown"
    /\ appContent = "hidden"
    /\ images = [i \in CriticalImages |-> "none"]
    /\ waiting = {}
    /\ errorEvents = 0
    /\ rejections = 0

\* the header links and the main content before any renderer has run
InitPage ==
    /\ social = [rendered |-> FALSE, links |-> <<>>]
    /\ plainNav = <<>>
    /\ rendered = RenderedStart

Init ==
    /\ InitBoot
    /\ modal = ModalStart(<<>>)
    /\ InitPage

\* the page: bootstrap, theme toggle and the top-level error handlers
Next ==
    \/ CallInitializeApp
    \/ FontWaitOver
    \/ \E e \in FetchFailures : FetchFails(e)
    \/ \E d \in Docs : FetchSucceeds(d)
    \/ AnimationFrame
    \/ \E i \in CriticalImages, how \in {"loaded", "failed"} : ImageSettles(i, how)
    \/ WindowError
    \/ UnhandledRejection
    \/ ToggleClick
    \/ ToggleHover

Spec == Init /\ [][Next]_vars

\* the page under the browser's scheduling: a requested animation frame is delivered,
\* and an image that is loading ends by loading or by failing
SpecLive ==
    /\ Init
    /\ [][Next]_vars
    /\ WF_vars(AnimationFrame)
    /\ \A i \in CriticalImages : WF_vars(\E how \in {"loaded", "failed"} : ImageSettles(i, how))

\* the page with nothing promised but the timers of the source: the 800 ms timer of
\* the font race fires and a requested animation frame is delivered; the fetch and
\* the images may stay pending for ever
SpecTimers ==
    /\ Init
    /\ [][Next]_vars
    /\ WF_vars(FontWaitOver)
    /\ WF_vars(AnimationFrame)

\* the link resolver alone: the page as loaded with working storage
InitSteam ==
    /\ Init
    /\ storageMode = "ok"
    /\ stored = NoItem

HandoffEvents ==
    \/ Blur
    \/ Focus
    \/ VisibilityChange
    \/ \E i \in DOMAIN calls : FrameLoadTimer(i)
    \/ \E i \in DOMAIN calls : FallbackTimer(i)

\* one call of the resolver on any input, and the events that follow it
NextResolve ==
    \/ \E v \in ResolverInputs : Len(calls) = 0 /\ Invoke(v)
    \/ HandoffEvents

SpecResolve == InitSteam /\ [][NextResolve]_vars

\* overlapping handoffs on recognized-host urls
NextRace ==
    \/ \E v \in RaceInputs : Len(calls) < MaxInvocations /\ Invoke(v)
    \/ HandoffEvents

SpecRace == InitSteam /\ [][NextRace]_vars

\* one activation of an item's 'Open in Steam' control, and the events that follow it
NextButton ==
    \/ \E v \in ButtonInputs : Len(calls) = 0 /\ ActivateSteamButton(v)
    \/ HandoffEvents

SpecButton == InitSteam /\ [][NextButton]_vars

\* the header's social links: rendered once, then activated
NextSocial ==
    \/ \E list \in SocialLists : RenderSocialLinks(list)
    \/ \E k \in 1..2 : ClickSocialLink(k)
    \/ HandoffEvents

SpecSocial == InitSteam /\ [][NextSocial]_vars

\* the section renderer alone: render passes and images approaching the viewport
NextSections ==
    \/ \E secs \in SectionLists, f \in BOOLEAN : RenderSectionsRuns(secs, f)
    \/ \E k \in 1..5 : ImageIntersects(k)

SpecSections == InitSteam /\ [][NextSections]_vars

\* the modals alone: the page as loaded with working storage and any fragment
InitModal ==
    /\ InitBoot
    /\ storageMode = "ok"
    /\ stored = NoItem
    /\ modal \in {ModalStart(h) : h \in Hashes}
    /\ InitPage

NextModal ==
    \/ \E list \in ModalLists : RenderModalsRuns(list)
    \/ \E id \in ModalIds \cup {IdNoSuch} : OpenModalCalled(id)
    \/ \E id \in PageLinks, f \in BOOLEAN : LinkClick(id, f)
    \/ \E h \in Hashes : HashChange(h)
    \/ \E id \in ModalIds, f \in BOOLEAN : CloseButtonClick(id, f)
    \/ \E id \in ModalIds : OutsideClick(id)
    \/ EscapeKey
    \/ \E e \in Controls : FocusMove(e)

SpecModal == InitModal /\ [][NextModal]_vars

-----------------------------------------------------------------------------
(* Properties of the handoff                                               *)

Handoffs == {i \in DOMAIN calls : calls[i].outcome = "handoff"}

\* the call has run to its end: neither of its timers is pending
Ended(c) == c.loadTimer # "armed" /\ c.timeoutId # "armed"

\* C1: in one handoff on a recognized-host url, if the 100 ms timer fires before any
\* window-blur or visibility-hidden event, the web url is opened exactly once; if
\* such an event comes before the timer, the call never opens the web url, whatever
\* events arrive afterwards.
C1_FallbackOnceOrNever ==
    \A i \in Handoffs :
        /\ calls[i].first = "timeout" => calls[i].opened = <<calls[i].input.chars>>
        /\ calls[i].first = "signal" => calls[i].opened = <<>>

\* one handoff was decided by its timer and opened its url, another was decided by
\* a blur or hidden event and has seen both of its timers' moments pass
C1_Witness ==
    \E i, j \in Handoffs :
        /\ calls[i].first = "timeout" /\ Len(calls[i].opened) = 1
        /\ calls[j].first = "signal" /\ Ended(calls[j]) /\ visChanges > 0

\* C2: a handoff never ends in a dead end: whatever the order of blur, visibility
\* change, the 10 ms timer and the 100 ms timer, a call that has ended has loaded the
\* deep link into the frame or has opened the web url.
C2_NoDeadEnd ==
    \A i \in Handoffs :
        Ended(calls[i]) => (calls[i].navigated # <<>> \/ calls[i].opened # <<>>)

\* the digits of /app/<digits> in each path of the model, <<>> where there are none
ExpectedAppId(p) ==
    CASE p = PathApp -> Digits42
      [] p = PathAppBare -> Digits7
      [] OTHER -> <<>>

\* each path of the model percent-encoded
ExpectedEncoded(p) == IF p = PathSearch THEN PathSearchEncoded ELSE p

\* no deep-link attempt was made: no frame, no listener, no timer
NoAttempt(c) ==
    /\ c.frame = "none" /\ c.frameSrc = <<>> /\ c.navigated = <<>>
    /\ ~c.blurL /\ ~c.visL
    /\ c.timeoutId = "none" /\ c.loadTimer = "none"

\* C3: every http(s) url on store.steampowered.com or steamcommunity.com containing
\* /app/<digits> gets the deep link steam://store/<digits>; every other url on these
\* hosts gets steam://openurl/<the url, percent-encoded>; a url on any other host is
\* opened as a web page and no deep-link attempt is made.
C3_Classification ==
    \A i \in DOMAIN calls :
        \A s \in {SchemeHttps, SchemeHttp, SchemeUpper}, h \in Hosts, p \in Paths :
            calls[i].input = JsString(s \o h \o p) =>
                IF h \in {HostStore, HostCommunity, HostStoreCaps}
                THEN /\ calls[i].outcome = "handoff"
                     /\ calls[i].proto =
                            IF ExpectedAppId(p) # <<>>
                            THEN SteamStorePrefix \o ExpectedAppId(p)
                            ELSE SteamOpenUrlPrefix \o s \o h \o ExpectedEncoded(p)
                ELSE /\ calls[i].outcome = "web"
                     /\ calls[i].opened = <<s \o h \o p>>
                     /\ NoAttempt(calls[i])

\* C4 as stated: a call with a malformed or empty url is a no-op; the string
\* "not a url" stands for the malformed urls.
C4_MalformedIsNoOp ==
    \A i \in DOMAIN calls :
        (calls[i].input.type # "string" \/ calls[i].input.chars \in {EMPTY, NotAUrl})
            => (calls[i].opened = <<>> /\ NoAttempt(calls[i]))

\* C4, amended: a call with an argument that is not a string, or with the empty
\* string, is a no-op: nothing is opened and no frame, listener or timer is set up.
C4_NonStringOrEmptyIsNoOp ==
    \A i \in DOMAIN calls :
        (calls[i].input.type # "string" \/ calls[i].input.chars = EMPTY)
            => (calls[i].outcome = "ignored" /\ calls[i].opened = <<>> /\ NoAttempt(calls[i]))

\* the resolver was called with the empty string, and events followed
C4_Witness ==
    /\ Len(calls) = 1
    /\ calls[1].input = JsString(EMPTY)
    /\ visChanges > 0
    /\ ~winFocused

-----------------------------------------------------------------------------
(* Properties of the bootstrap                                             *)

StorageErrors == {"SecurityError", "QuotaExceededError"}

\* C5: the page is revealed even on failure: when loadData rejects or a renderer
\* throws during initializeApp, the bootstrap ends with the loading indicator hidden
\* and the content region shown.
C5_RevealedOnFailure ==
    caught # "none" => (pc = "done" /\ spinner = "none" /\ appContent = "block")

\* a renderer threw after an earlier renderer had completed
C5_Witness ==
    /\ caught = "TypeError"
    /\ "header" \in done
    /\ Len(ran) > Cardinality(done)
    /\ spinner = "none"

\* C6: when loadData rejects, no content renderer runs, the loading state is
\* resolved, and the failure message is displayed in #main-content.
C6_FetchFailureShowsMessage ==
    caught \in FetchFailures =>
        (ran = <<>> /\ spinner = "none" /\ appContent = "block" /\ mainContent = "error")

\* C7: a window 'error' event and an 'unhandledrejection' event each end with the
\* failure message displayed.
C7_TopLevelFailuresShowMessage ==
    [][(errorEvents' # errorEvents \/ rejections' # rejections) => mainContent' = "error"]_vars

\* C8: getStoredTheme returns 'dark' for an absent or invalid stored value (seen in
\* what applySavedTheme has just applied from it), and in every reachable state the
\* stylesheet href and the data-theme attribute (once set) name dark or light.
C8_ThemeNeverThird ==
    /\ pc = "fetch" =>
           dataTheme = IF stored \in {Item(DARK), Item(LIGHT)} THEN stored.chars ELSE DARK
    /\ themeHref \in {CssHref(DARK), CssHref(LIGHT)}
    /\ dataTheme # <<>> => dataTheme \in Themes

\* C9: with local storage unavailable, no storage error reaches the bootstrap: once
\* past the font wait the theme is applied, and a loaded document has all of its
\* renderers run.
C9_StorageFailureIsSilent ==
    (storageMode # "ok" /\ pc \notin {"idle", "fonts"}) =>
        /\ caught \notin StorageErrors
        /\ dataTheme \in Themes
        /\ (pc = "done" /\ doc = GoodDoc) =>
               done = {"meta", "header", "sections", "footer", "modals"}

\* C10: each activation of the theme toggle switches the applied and the persisted
\* theme to the other of dark and light, two consecutive activations restore the
\* theme, and after an activation getStoredTheme returns the theme just applied.
C10_ToggleAlternates ==
    toggle.installed =>
        LET h == toggle.history
        IN /\ Len(h) = toggle.clicks + 1
           /\ themeHref = h[Len(h)]
           /\ \A k \in 1..Len(h) : h[k] \in {CssHref(DARK), CssHref(LIGHT)}
           /\ \A k \in 1..(Len(h) - 1) : h[k + 1] # h[k]
           /\ \A k \in 1..(Len(h) - 2) : h[k + 2] = h[k]
           /\ toggle.clicks > 0 =>
                  /\ stored = Item(GetStoredTheme)
                  /\ themeHref = CssHref(GetStoredTheme)
                  /\ dataTheme = GetStoredTheme

\* the toggle was activated twice and the theme is back where it was
C10_Witness ==
    /\ toggle.clicks = 2
    /\ toggle.history[1] = toggle.history[3]
    /\ stored = Item(DARK)
    /\ doc = GoodDoc

-----------------------------------------------------------------------------
(* Properties of the modals                                                *)

\* what openModal and closeModal act on: visibility, the focus slot, the focused
\* control, background scroll, the fragment and the key listeners
ModalEffects(m) ==
    <<m.open, m.lastFocus, m.activeElement, m.overflow, m.hash, m.keyListeners,
      m.escHandler>>

\* C11: a call openModal(id) for which no modal is rendered changes nothing
\* (visibility, focus slot, background scroll, fragment, key listeners); for a
\* rendered modal it makes the modal visible, suspends background scroll, sets the
\* fragment to #id and installs a key listener for id.
C11_OpenModal ==
    [][\A id \in ModalIds \cup {IdNoSuch} :
          (modal'.apiCalls = modal.apiCalls + 1 /\ modal'.arg = id) =>
              IF id \notin modal.overlays
              THEN ModalEffects(modal') = ModalEffects(modal)
              ELSE /\ id \in modal'.open
                   /\ modal'.overflow = "hidden"
                   /\ modal'.hash = Hash(id)
                   /\ \E l \in modal'.keyListeners \ modal.keyListeners : l.id = id]_vars

\* openModal was called for a rendered modal and then for an id without a modal
C11_Witness ==
    /\ modal.rendered
    /\ modal.apiCalls = 2
    /\ modal.opens = 1
    /\ modal.arg = IdNoSuch
    /\ modal.open = {IdPrivacy}
    /\ modal.hash = Hash(IdPrivacy)
    /\ modal.linkHandlers = {IdPrivacy}

\* C12: whenever a modal goes from open to closed, after any sequence of opens and
\* closes, focus is back on the control that had it before the modal was opened,
\* background scroll is resumed, the fragment does not name the modal and no key
\* listener installed for the modal is left attached.
C12_CloseReversesOpen ==
    [][\A id \in ModalIds :
          (id \in modal.open /\ id \notin modal'.open) =>
              /\ modal.before[id] # Body => modal'.activeElement = modal.before[id]
              /\ modal'.overflow = ""
              /\ modal'.hash # Hash(id)
              /\ ~ \E l \in modal'.keyListeners : l.id = id]_vars

\* an entry of the array that is a modal of the data model: it has id and title
IsModalOf(list, id) ==
    \E k \in DOMAIN list : ~list[k].isNull /\ list[k].id = id /\ list[k].hasTitle

\* C13: when renderModals completes with the fragment naming a modal of the array,
\* that modal is open; and whenever the fragment changes afterwards to #id of a
\* rendered modal, that modal is open.
C13_FragmentOpens ==
    [][\A id \in ModalIds :
          /\ (~modal.rendered /\ modal'.rendered /\ modal.hash = Hash(id)
                /\ IsModalOf(modal'.list, id)) => id \in modal'.open
          /\ (modal.rendered /\ modal.hash # Hash(id) /\ modal'.hash = Hash(id)
                /\ id \in modal.overlays) => id \in modal'.open]_vars

\* the page was rendered and the terms modal is open by the fragment alone: no direct
\* call and no link activation has the body as the focus slot with a focused link
C13_Witness ==
    /\ modal.rendered
    /\ modal.apiCalls = 0
    /\ modal.opens = 1
    /\ modal.hash = Hash(IdTerms)
    /\ modal.open = {IdTerms}
    /\ modal.lastFocus = LinkOf(IdPrivacy)
    /\ modal.activeElement = LinkOf(IdPrivacy)

-----------------------------------------------------------------------------
(* Properties of the item and header links                                 *)

\* C14: activating an item's 'Open in Steam' control has the outcome of
\* tryOpenSteamFromWebUrl on the item's steamUrl (the same choice between deep link
\* and plain web open, and the same deep-link URI), and the control's href is the
\* web url.
C14_ButtonUsesResolver ==
    \A i \in DOMAIN calls :
        LET r == TryOpenSteamFromWebUrl(calls[i].input)
        IN /\ calls[i].outcome = r.outcome
           /\ calls[i].proto = r.proto
           /\ SteamButtonHref(calls[i].input) = calls[i].input.chars

\* C15: no social link with an empty url is rendered; every rendered social link
\* whose url is on a Steam host calls the resolver when activated; a link to another
\* domain ends as a plain web open (never a deep-link attempt).
C15_SocialLinksWiredByDomain ==
    \A k \in DOMAIN social.links :
        LET l == social.links[k]
        IN /\ l.href # <<>>
           /\ IsSteamHost(l.href) => l.wired
           /\ ~IsSteamHost(l.href) =>
                  (~l.wired \/ TryOpenSteamFromWebUrl(JsString(l.href)).outcome = "web")

-----------------------------------------------------------------------------
(* Properties of the items                                                 *)

\* the lines of a string: it is cut at every newline
RECURSIVE Lines(_)
Lines(t) ==
    IF t = <<>> THEN <<>>
    ELSE LET nl == {k \in 1..Len(t) : t[k] = "\n"}
         IN IF nl = {} THEN <<t>>
            ELSE LET k == CHOOSE x \in nl : \A y \in nl : x <= y
                 IN <<SubSeq(t, 1, k - 1)>> \o Lines(SubSeq(t, k + 1, Len(t)))

\* the lines of the text blocks of a rendered item, in order
RECURSIVE BlockLines(_)
BlockLines(content) ==
    IF content = <<>> THEN <<>>
    ELSE (IF Head(content).cls = "item-text" THEN Lines(Head(content).text) ELSE <<>>)
         \o BlockLines(Tail(content))

\* the paragraphs an item's text stands for: the lines of a string, the elements of
\* a list
Paragraphs(v) == IF v.type = "array" THEN v.elems ELSE Lines(v.chars)

\* C16: a text given as one newline-delimited string and the same content given as a
\* list of strings render to equivalent blocks: the rendered text of an item, read
\* line by line, is the sequence of its paragraphs ("a\nb" and ["a","b"] both show
\* "a" and then "b").
C16_TextFormsEquivalent ==
    \A k \in DOMAIN rendered.out :
        BlockLines(rendered.out[k].content) = Paragraphs(rendered.out[k].item.text)

\* C17: in every render pass exactly the first two items in document order load
\* their image eagerly and every later item defers its image load until it
\* approaches the viewport.
C17_FirstItemsEager ==
    \A k \in DOMAIN rendered.out :
        rendered.out[k].img.loading # "none" =>
            /\ k <= 2 => rendered.out[k].img.loading = "eager"
                         /\ rendered.out[k].img.fetch = "immediate"
            /\ k > 2 => rendered.out[k].img.fetch # "immediate"

-----------------------------------------------------------------------------
(* Properties of the handoff's commitment and cleanup                      *)

\* the outcome of a handoff is committed: a blur or hidden event was taken as
\* "accepted" (steamDetected), or the fallback timer ran
Committed(c) == c.outcome = "handoff" /\ (c.steamDetected \/ c.timeoutId = "fired")

\* what a handoff has done: the flag, the web pages opened, what the frame was given
\* and has loaded, whether the frame is in the document, the fallback timer
HandoffEffects(c) ==
    <<c.steamDetected, c.opened, c.frameSrc, c.navigated, c.frame, c.timeoutId>>

\* C18: within one handoff exactly one of "accepted" and "declined" takes effect, and
\* every blur, visibility-change or timer event of that handoff that arrives after the
\* commitment opens nothing, loads nothing into the frame and changes nothing of what
\* the handoff has done.
C18_CommittedOnce ==
    [][\A i \in DOMAIN calls :
          Committed(calls[i]) =>
              /\ HandoffEffects(calls'[i]) = HandoffEffects(calls[i])
              /\ calls[i].steamDetected <=> calls[i].opened = <<>>]_vars

\* a handoff committed to "accepted" by a blur has since seen the page hidden and
\* both of its timers' moments pass, and one committed by its timer a later blur
C18_Witness ==
    \E i, j \in Handoffs :
        /\ calls[i].first = "signal" /\ calls[i].steamDetected /\ Ended(calls[i])
        /\ calls[j].first = "timeout" /\ calls[j].timeoutId = "fired"
        /\ docHidden
        /\ ~winFocused

\* C19: every exit path of a handoff cleans up completely: once a blur, a hidden event
\* or the timeout has decided and the call has ended, the frame is out of the document,
\* the call's blur and visibilitychange listeners are detached and the fallback timer
\* is not pending.
C19_CleanExit ==
    \A i \in Handoffs :
        (Committed(calls[i]) /\ Ended(calls[i])) =>
            /\ calls[i].frame = "removed"
            /\ ~calls[i].blurL
            /\ ~calls[i].visL
            /\ calls[i].timeoutId # "armed"

-----------------------------------------------------------------------------
(* Properties of the image wait                                            *)

\* C20: waitForAboveFoldImages always resolves: whatever the critical images do and
\* whenever they do it (loading later, failing later, loaded or failed before the
\* wait attaches its listeners), a bootstrap that has called the wait goes on to
\* reveal the page.
C20_WaitResolves ==
    (pc = "frame") ~> (pc = "done" /\ spinner = "none" /\ appContent = "block")

-----------------------------------------------------------------------------
(* Properties of the bootstrap sequence                                    *)

\* C21: each of the three waits of the bootstrap is self-bounding: even if the font
\* never loads, the fetch never settles or a critical image never fires load or
\* error, a bootstrap that has started goes on to reveal the page.
C21_WaitsSelfBounding ==
    (pc = "fonts") ~> (spinner = "none" /\ appContent = "block")

\* C22: on every path through the bootstrap, the path where a renderer throws after
\* images were inserted included, the page is revealed only after every critical
\* image in the document (logo, first item image) has settled, by load or by error.
C22_RevealAfterImages ==
    appContent = "block" => \A i \in CriticalImages : images[i] # "loading"

\* C23: no content renderer (meta, header, sections, footer, modals) runs before
\* loadData has resolved with the content document, and none runs at all when
\* loadData rejects.
C23_RenderAfterFetch ==
    /\ pc \in {"idle", "fonts", "fetch"} => (ran = <<>> /\ done = {})
    /\ caught \in FetchFailures => (ran = <<>> /\ done = {} /\ doc = NoDoc)
    /\ ran # <<>> => doc \in Docs \ {NoDoc, NullDoc}

\* loadData resolved with the full document and all five renderers ran
C23_Witness ==
    /\ doc = GoodDoc
    /\ ran = <<"meta", "header", "sections", "footer", "modals">>
    /\ caught = "none"
    /\ pc = "frame"

\* C24: theme application comes first in the bootstrap: before the bootstrap is at any
\* of its waits (font wait, content fetch, image wait) the persisted theme is on the
\* stylesheet reference and on the document's data-theme attribute.
C24_ThemeAppliedFirst ==
    (pc \in {"fonts", "fetch", "frame", "images"} /\ ~ReadThrows) =>
        /\ dataTheme # <<>>
        /\ pc = "fonts" => (themeHref = CssHref(GetStoredTheme) /\ dataTheme = GetStoredTheme)

SlicesOf(d) ==
    {n \in {"meta", "header", "sections", "footer", "modals"} :
        CASE n = "meta" -> d.meta
          [] n = "header" -> d.header # "absent"
          [] n = "sections" -> d.sections # "absent"
          [] n = "footer" -> d.footer # "absent"
          [] OTHER -> d.modals # "absent"}

\* C26: a failure inside one renderer on a malformed record (a null section, social
\* link, footer link or modal) is contained to that renderer: once the document has
\* been fetched, every renderer that has a slice in it has been run, those after the
\* failing one included.
C26_FailureContained ==
    (pc \in {"frame", "images", "done"} /\ ~doc.isNull /\ caught \in {"none", "TypeError"}
       /\ doc # NoDoc) =>
        \A n \in SlicesOf(doc) : \E k \in DOMAIN ran : ran[k] = n

-----------------------------------------------------------------------------
(* Properties of the theme records                                         *)

\* C27: after any sequence of preload requests (hover over the toggle) and theme
\* toggles the document holds at most one alternate-theme preload hint, and it names
\* the theme that is not the active one.
C27_OnePreloadHint ==
    /\ Cardinality(preloads) <= 1
    /\ \A t \in preloads : t # GetCurrentTheme

\* C28: the persisted theme preference is written only by a click on the theme
\* toggle: every other step (bootstrap, theme application on load, header rendering)
\* leaves the stored value as it was, an absent key included.
C28_StoredWrittenByToggleOnly ==
    [][stored' # stored => (toggle.installed /\ toggle'.clicks = toggle.clicks + 1)]_vars

\* C29: background scroll stays suspended whenever at least one modal is open.
C29_ScrollLockedWhileOpen ==
    modal.open # {} => modal.overflow = "hidden"

\* C30: once the header has been rendered with storage available, the stylesheet
\* reference, the data-theme attribute and the persisted value name the same theme,
\* after the bootstrap and after any number of clicks on the toggle.
C30_ThemeRecordsAgree ==
    (toggle.installed /\ storageMode = "ok") =>
        \E t \in Themes :
            /\ themeHref = CssHref(t)
            /\ dataTheme = t
            /\ stored = Item(t)

\* the toggle was clicked twice with storage available: the three records went to
\* the other theme and back
C30_Witness ==
    /\ toggle.installed
    /\ storageMode = "ok"
    /\ toggle.clicks = 2
    /\ stored = Item(DARK)
    /\ dataTheme = DARK

=============================================================================
